---- MODULE Spec2Model ----
(***************************************************************************)
(* State-machine model of the pendulum control sandbox (src/src/main.rs).  *)
(*                                                                         *)
(* Two entities are spawned by add_pendulum: "P" carries a Pendulum and a  *)
(* PID component, "L" carries a Pendulum and an LQR component.  Every      *)
(* frame the scheduler runs each registered system once; main registers    *)
(* them with add_system and no .before/.after constraint, so the program   *)
(* does not fix their relative order: the schedule built at startup may    *)
(* put them in any order, which every frame then follows.  Systems that    *)
(* touch the same components never overlap, so each system run is one      *)
(* atomic step.                                                            *)
(* draw_pendulum and debug_draw only write render state (Transform,        *)
(* DebugLines) that no other system reads; they are left out.              *)
(*                                                                         *)
(* f32 values are fixed-point integers (value * SCALE) extended with the   *)
(* three IEEE special values the program can produce: +inf, -inf and NaN.  *)
(***************************************************************************)
EXTENDS Integers, Sequences, FiniteSets, TLC

\* ------------------------------------------------------------------ f32
SCALE == 10 ^ 3
PINF == 10 ^ 9
NINF == -(10 ^ 9)
NAN == 2 * (10 ^ 9)

IsNan(x) == x = NAN
IsInf(x) == x = PINF \/ x = NINF
IsFinite(x) == ~IsNan(x) /\ ~IsInf(x)

\* round to nearest, ties away from zero (d > 0)
RoundDiv(n, d) ==
    IF n >= 0 THEN (2 * n + d) \div (2 * d) ELSE -((2 * (-n) + d) \div (2 * d))

Sign(x) == IF x > 0 THEN 1 ELSE IF x < 0 THEN -1 ELSE 0

FNeg(x) == IF IsNan(x) THEN NAN ELSE -x

FAdd(x, y) ==
    IF IsNan(x) \/ IsNan(y) THEN NAN
    ELSE IF IsInf(x) /\ IsInf(y) THEN (IF x = y THEN x ELSE NAN)
    ELSE IF IsInf(x) THEN x
    ELSE IF IsInf(y) THEN y
    ELSE x + y

FSub(x, y) == FAdd(x, FNeg(y))

FMul(x, y) ==
    IF IsNan(x) \/ IsNan(y) THEN NAN
    ELSE IF IsInf(x) \/ IsInf(y)
         THEN (IF x = 0 \/ y = 0 THEN NAN
               ELSE IF Sign(x) * Sign(y) > 0 THEN PINF ELSE NINF)
    ELSE RoundDiv(x * y, SCALE)

FDiv(x, y) ==
    IF IsNan(x) \/ IsNan(y) THEN NAN
    ELSE IF IsInf(x) /\ IsInf(y) THEN NAN
    ELSE IF IsInf(x) THEN (IF Sign(x) * (IF y < 0 THEN -1 ELSE 1) > 0 THEN PINF ELSE NINF)
    ELSE IF IsInf(y) THEN 0
    ELSE IF y = 0 THEN (IF x = 0 THEN NAN ELSE IF x > 0 THEN PINF ELSE NINF)
    ELSE Sign(y) * RoundDiv(x * SCALE, Sign(y) * y)

\* comparisons with NaN are false
FLt(x, y) == ~IsNan(x) /\ ~IsNan(y) /\ x < y
FLe(x, y) == ~IsNan(x) /\ ~IsNan(y) /\ x <= y

FAbs(x) == IF IsNan(x) THEN NAN ELSE IF x < 0 THEN -x ELSE x

\* f32::min / f32::max return the other operand when one is NaN
FMin(x, y) == IF IsNan(x) THEN y ELSE IF IsNan(y) THEN x ELSE IF x < y THEN x ELSE y
FMax(x, y) == IF IsNan(x) THEN y ELSE IF IsNan(y) THEN x ELSE IF x > y THEN x ELSE y

\* f32::clamp (lo <= hi, neither NaN, at every call site): NaN is returned as is
FClamp(x, lo, hi) == IF FLt(x, lo) THEN lo ELSE IF FLt(hi, x) THEN hi ELSE x

ONE == SCALE
PI == RoundDiv(314159 * SCALE, 10 ^ 5)

\* f32::sin: NaN for NaN and for +-inf; for finite arguments Bhaskara's rational
\* approximation after reduction modulo 2*PI (error below 0.002)
SinHalf(t) ==
    RoundDiv(16 * t * (PI - t), RoundDiv(5 * PI * PI - 4 * t * (PI - t), SCALE))

Sin(x) ==
    IF ~IsFinite(x) THEN NAN
    ELSE LET r == x % (2 * PI)
         IN IF r <= PI THEN SinHalf(r) ELSE -SinHalf(r - PI)

\* ------------------------------------------------------------ constants
DT == RoundDiv(5 * SCALE, 100)
G == RoundDiv(98 * SCALE, 10)
\* the integral gate of control_pendulum_pid: error.abs() < 0.05
GATE == RoundDiv(5 * SCALE, 100)

\* ------------------------------------------------------------ bounds
\* frames simulated
MaxFrames == 3
\* frames in which the user touches a widget of a settings window
MaxTouches == 2

\* ------------------------------------------------------------ entities
PidEntities == {"P"}
LqrEntities == {"L"}
Entities == PidEntities \cup LqrEntities

Systems == {"ui_example", "control_pendulum_pid", "control_pendulum_lqr",
            "move_pendulum", "history"}

NSystems == Cardinality(Systems)

\* the schedules main allows: every order of the registered systems
Schedules ==
    {s \in [1..NSystems -> Systems] : \A i, j \in 1..NSystems : s[i] = s[j] => i = j}

VARIABLES
    pendulum,   \* [Entities -> Pendulum component]
    pid,        \* [PidEntities -> PID component]
    lqr,        \* [LqrEntities -> LQR component]
    order,      \* the schedule built at startup
    pc,         \* number of systems that have run in the current frame
    frame,      \* number of completed frames
    touches,    \* number of frames in which the user touched a widget
    crashed,    \* a system panicked: the application is gone
    step,       \* the last step taken (system, and the widget the user touched)
    solve,      \* result kind of the last compute_gain call
    histSteps   \* per entity: runs of history since its last Reset

vars == <<pendulum, pid, lqr, order, pc, frame, touches, crashed, step, solve, histSteps>>

\* Pendulum::default (offset is render state and is left out)
DefaultPendulum ==
    [a |-> FAdd(PI, RoundDiv(5 * SCALE, 10)),
     da |-> RoundDiv(SCALE, 10),
     length |-> 10 * SCALE,
     friction |-> 0,
     control |-> 0,
     control_power |-> 5 * SCALE,
     control_history |-> <<>>]

\* Pendulum::get_system: the matrices A (row major) and B
get_system(p) ==
    LET dt2 == FMul(DT, DT)
    IN [a |-> << FAdd(ONE, FMul(FDiv(G, FMul(2 * SCALE, p.length)), dt2)),
                 FSub(DT, FMul(FDiv(p.friction, 2 * SCALE), dt2)),
                 FMul(FDiv(G, p.length), DT),
                 FSub(ONE, FMul(p.friction, DT)) >>,
        b |-> << FMul(FDiv(p.control_power, 2 * SCALE), dt2),
                 FMul(p.control_power, DT) >>]

\* the PID component spawned by add_pendulum
SpawnPid ==
    [set_point |-> PI,
     proportional_gain |-> -8 * SCALE,
     integral_gain |-> RoundDiv(-55 * SCALE, 10),
     derivative_gain |-> -4 * SCALE,
     accumulator |-> 0,
     accumulator_enabled |-> FALSE,
     error_history |-> <<>>,
     accumulator_history |-> <<>>]

\* the LQR component spawned by add_pendulum
SpawnLqr ==
    [set_point |-> PI,
     a |-> get_system(DefaultPendulum).a,
     b |-> get_system(DefaultPendulum).b,
     q |-> <<ONE, 0, 0, ONE>>,
     r |-> ONE]

NoStep == [sys |-> "startup", e |-> "-", w |-> "none"]

\* add_pendulum (startup system)
Init ==
    /\ pendulum = [e \in Entities |-> DefaultPendulum]
    /\ pid = [e \in PidEntities |-> SpawnPid]
    /\ lqr = [e \in LqrEntities |-> SpawnLqr]
    /\ order \in Schedules
    /\ pc = 0
    /\ frame = 0
    /\ touches = 0
    /\ crashed = FALSE
    /\ step = NoStep
    /\ solve = "none"
    /\ histSteps = [e \in Entities |-> 0]

\* ------------------------------------------------------------ scheduler
\* system s is the next one of the schedule
CanRun(s) ==
    /\ ~crashed
    /\ frame < MaxFrames
    /\ order[pc + 1] = s

\* the system has run; the frame is complete after the last one
Advance ==
    /\ pc' = (pc + 1) % NSystems
    /\ frame' = IF pc + 1 = NSystems THEN frame + 1 ELSE frame
    /\ order' = order

\* position of system s in the schedule
Pos(s) == CHOOSE i \in 1..NSystems : order[i] = s

\* ------------------------------------------------------------ Pendulum
set_control(p, value) == [p EXCEPT !.control = FClamp(value, -ONE, ONE)]

acceleration(p, gravity) ==
    FSub(FDiv(FMul(FNeg(gravity), Sin(p.a)), p.length), FMul(p.friction, p.da))

move_one(p) ==
    LET da == FAdd(p.da, FMul(FAdd(acceleration(p, G), FMul(p.control, p.control_power)), DT))
    IN [p EXCEPT !.da = da, !.a = FAdd(p.a, FMul(da, DT))]

move_pendulum ==
    /\ CanRun("move_pendulum")
    /\ pendulum' = [e \in Entities |-> move_one(pendulum[e])]
    /\ Advance
    /\ step' = [sys |-> "move_pendulum", e |-> "-", w |-> "none"]
    /\ UNCHANGED <<pid, lqr, touches, crashed, solve, histSteps>>

\* history: one push per entity, error and accumulator only with a PID
history_pendulum(p) == [p EXCEPT !.control_history = Append(@, p.control)]

\* mutant: the accumulator push is forgotten
history_pid_no_acc(c, p) ==
    [c EXCEPT !.error_history = Append(@, FSub(c.set_point, p.a))]

history_pid(c, p) ==
    LET error == FSub(c.set_point, p.a)
    IN [c EXCEPT !.error_history = Append(@, error),
                 !.accumulator_history = Append(@, c.accumulator)]

history ==
    /\ CanRun("history")
    /\ pendulum' = [e \in Entities |-> history_pendulum(pendulum[e])]
    /\ pid' = [e \in PidEntities |-> history_pid(pid[e], pendulum[e])]
    /\ histSteps' = [e \in Entities |-> histSteps[e] + 1]
    /\ Advance
    /\ step' = [sys |-> "history", e |-> "-", w |-> "none"]
    /\ UNCHANGED <<lqr, touches, crashed, solve>>

\* ------------------------------------------------------------ PID
pid_error(p, c) == FSub(p.a, c.set_point)

\* prop + der, the control before the integral term
pid_pd(p, c) ==
    FAdd(FMul(pid_error(p, c), c.proportional_gain), FMul(p.da, c.derivative_gain))

\* mutant: the gate is recomputed every run instead of latched
pid_latch_regate(p, c) == FLt(FAbs(pid_error(p, c)), GATE)

\* the integral gate: set when |error| < 0.05, never cleared here
pid_latch(p, c) == c.accumulator_enabled \/ FLt(FAbs(pid_error(p, c)), GATE)

\* the accumulator clamp to the headroom left by prop + der
anti_windup(acc, control) ==
    FClamp(acc, FMin(FSub(-ONE, control), 0), FMax(FSub(ONE, control), 0))

pid_accumulator(p, c) ==
    IF pid_latch(p, c)
    THEN anti_windup(FAdd(c.accumulator,
                          FMul(FMul(pid_error(p, c), c.integral_gain), DT)),
                     pid_pd(p, c))
    ELSE c.accumulator

pid_component(p, c) ==
    [c EXCEPT !.accumulator_enabled = pid_latch(p, c),
              !.accumulator = pid_accumulator(p, c)]

\* prop + accumulator + der with the updated accumulator
pid_control(p, c) ==
    FAdd(FAdd(FMul(pid_error(p, c), c.proportional_gain), pid_accumulator(p, c)),
         FMul(p.da, c.derivative_gain))

control_pendulum_pid ==
    /\ CanRun("control_pendulum_pid")
    /\ pid' = [e \in PidEntities |-> pid_component(pendulum[e], pid[e])]
    /\ pendulum' = [e \in Entities |->
                      IF e \in PidEntities
                      THEN set_control(pendulum[e], pid_control(pendulum[e], pid[e]))
                      ELSE pendulum[e]]
    /\ Advance
    /\ step' = [sys |-> "control_pendulum_pid", e |-> "-", w |-> "none"]
    /\ UNCHANGED <<lqr, touches, crashed, solve, histSteps>>

\* ------------------------------------------------------------ LQR
\* LQRController::new and compute_gain belong to the external lqr crate and
\* return a Result: an error, or the gain row K.  K for the spawned
\* (A, B, Q, R) is about (1.072, 1.071).
compute_gain(a, b, q, r) ==
    {[ok |-> FALSE, k |-> <<0, 0>>],
     [ok |-> TRUE, k |-> <<1072, 1071>>]}

\* u = -k * x with x = (a - set_point, da - 0)
lqr_control(p, l, k) ==
    FAdd(FMul(FNeg(k[1]), FSub(p.a, l.set_point)), FMul(FNeg(k[2]), FSub(p.da, 0)))

\* both unwrap() calls panic on an error, before set_control is reached
control_pendulum_lqr ==
    /\ CanRun("control_pendulum_lqr")
    /\ \E res \in [LqrEntities -> UNION {compute_gain(lqr[e].a, lqr[e].b, lqr[e].q, lqr[e].r)
                                          : e \in LqrEntities}] :
          /\ \A e \in LqrEntities :
                res[e] \in compute_gain(lqr[e].a, lqr[e].b, lqr[e].q, lqr[e].r)
          /\ IF \A e \in LqrEntities : res[e].ok
             THEN /\ pendulum' = [e \in Entities |->
                                    IF e \in LqrEntities
                                    THEN set_control(pendulum[e],
                                                     lqr_control(pendulum[e], lqr[e], res[e].k))
                                    ELSE pendulum[e]]
                  /\ crashed' = FALSE
                  /\ solve' = "ok"
             ELSE /\ pendulum' = pendulum
                  /\ crashed' = TRUE
                  /\ solve' = "err"
    /\ Advance
    /\ step' = [sys |-> "control_pendulum_lqr", e |-> "-", w |-> "none"]
    /\ UNCHANGED <<pid, lqr, touches, histSteps>>

\* LQR::set_gains (no caller in the program; see SpecGains)
set_gains(l, pos_cost, vel_cost, power_cost) ==
    [l EXCEPT !.q = <<pos_cost, 0, 0, vel_cost>>, !.r = power_cost]

\* ------------------------------------------------------------ settings window
\* One pass of ui_example draws a window per entity.  The user touches at
\* most one widget of one window in a frame: in = [e, w, v] names the entity,
\* the widget and, for a slider, the value it is dragged to.  Every slider is
\* modelled below; the inputs exercise the ones named here.
LengthInputs == {0}
PowerInputs == {20 * SCALE}
AngleInputs == {PI + 30}
SpeedInputs == {0}
SetPointInputs == {PI, PI + 500}
GainInputs == {0}

UiInputs ==
    {[e |-> "-", w |-> "none", v |-> 0]}
    \cup {[e |-> e, w |-> "reset", v |-> 0] : e \in Entities}
    \cup {[e |-> e, w |-> "length", v |-> v] : e \in Entities, v \in LengthInputs}
    \cup {[e |-> e, w |-> "control_power", v |-> v] : e \in LqrEntities, v \in PowerInputs}
    \cup {[e |-> e, w |-> "a", v |-> v] : e \in PidEntities, v \in AngleInputs}
    \cup {[e |-> e, w |-> "da", v |-> v] : e \in PidEntities, v \in SpeedInputs}
    \cup {[e |-> e, w |-> "set_point", v |-> v] : e \in PidEntities, v \in SetPointInputs}
    \cup {[e |-> e, w |-> "integral_gain", v |-> v] : e \in PidEntities, v \in GainInputs}

\* egui::Slider bound to a field: the field changes only when it is dragged
Slider(cur, in, e, w) == IF in.e = e /\ in.w = w THEN in.v ELSE cur

clicked(in, e) == in.e = e /\ in.w = "reset"

\* mutant: Reset adds the template angle instead of assigning it
ui_pendulum_add(p, in, e) ==
    LET s == [p EXCEPT !.length = Slider(@, in, e, "length"),
                       !.control_power = Slider(@, in, e, "control_power"),
                       !.a = Slider(@, in, e, "a"),
                       !.da = Slider(@, in, e, "da")]
    IN IF clicked(in, e)
       THEN [s EXCEPT !.a = FAdd(@, DefaultPendulum.a),
                      !.da = DefaultPendulum.da,
                      !.control_history = <<>>]
       ELSE s

\* the Pendulum part of the window: four sliders, then the Reset button
ui_pendulum(p, in, e) ==
    LET s == [p EXCEPT !.length = Slider(@, in, e, "length"),
                       !.control_power = Slider(@, in, e, "control_power"),
                       !.a = Slider(@, in, e, "a"),
                       !.da = Slider(@, in, e, "da")]
    IN IF clicked(in, e)
       THEN [s EXCEPT !.a = DefaultPendulum.a,
                      !.da = DefaultPendulum.da,
                      !.control_history = <<>>]
       ELSE s

\* the PID part of Reset
ui_reset_pid(c, in, e) ==
    IF clicked(in, e)
    THEN [c EXCEPT !.accumulator = 0,
                   !.accumulator_enabled = FALSE,
                   !.error_history = <<>>,
                   !.accumulator_history = <<>>]
    ELSE c

\* mutant: the set point moves and accumulator and latch are kept
ui_set_point_keep(c, in, e) ==
    [c EXCEPT !.set_point = Slider(@, in, e, "set_point")]

\* the set point slider: a changed set point clears accumulator and latch
ui_set_point(c, in, e) ==
    LET sp == Slider(c.set_point, in, e, "set_point")
    IN IF sp # c.set_point
       THEN [c EXCEPT !.set_point = sp, !.accumulator = 0, !.accumulator_enabled = FALSE]
       ELSE c

ui_gains(c, in, e) ==
    [c EXCEPT !.proportional_gain = Slider(@, in, e, "proportional_gain"),
              !.integral_gain = Slider(@, in, e, "integral_gain"),
              !.derivative_gain = Slider(@, in, e, "derivative_gain")]

ui_pid(c, in, e) == ui_gains(ui_set_point(ui_reset_pid(c, in, e), in, e), in, e)

\* mutant: the window re-linearizes from the current parameters
ui_lqr_relinearize(l, p) == [l EXCEPT !.a = get_system(p).a, !.b = get_system(p).b]

\* the LQR part of the window only shows a label
ui_lqr(l, p) == l

ui_example ==
    /\ CanRun("ui_example")
    /\ \E in \in UiInputs :
          /\ in.w # "none" => touches < MaxTouches
          /\ touches' = IF in.w # "none" THEN touches + 1 ELSE touches
          /\ pendulum' = [e \in Entities |-> ui_pendulum(pendulum[e], in, e)]
          /\ pid' = [e \in PidEntities |-> ui_pid(pid[e], in, e)]
          /\ lqr' = [e \in LqrEntities |-> ui_lqr(lqr[e], pendulum'[e])]
          /\ histSteps' = [e \in Entities |-> IF clicked(in, e) THEN 0 ELSE histSteps[e]]
          /\ step' = [sys |-> "ui_example", e |-> in.e, w |-> in.w]
    /\ Advance
    /\ UNCHANGED <<crashed, solve>>

\* ------------------------------------------------------------ specification
Next ==
    \/ ui_example
    \/ control_pendulum_pid
    \/ control_pendulum_lqr
    \/ move_pendulum
    \/ history

Spec == Init /\ [][Next]_vars

\* The program with a caller of LQR::set_gains between frames (the method has
\* none in main.rs): used for the claims about what set_gains writes.
CostInputs == {2 * SCALE}

call_set_gains ==
    /\ ~crashed
    /\ pc = 0
    /\ frame < MaxFrames
    /\ touches < MaxTouches
    /\ touches' = touches + 1
    /\ \E e \in LqrEntities, pos \in CostInputs, vel \in CostInputs, pw \in CostInputs :
          /\ lqr' = [lqr EXCEPT ![e] = set_gains(lqr[e], pos, vel, pw)]
          /\ step' = [sys |-> "set_gains", e |-> e, w |-> "none"]
    /\ UNCHANGED <<pendulum, pid, order, pc, frame, crashed, solve, histSteps>>

NextGains == Next \/ call_set_gains

SpecGains == Init /\ [][NextGains]_vars

\* ------------------------------------------------------------ claims
IsReset(st, e) == st.sys = "ui_example" /\ st.e = e /\ st.w = "reset"
ResetClick(e) == [e |-> e, w |-> "reset", v |-> 0]
InUnit(x) == FLe(-ONE, x) /\ FLe(x, ONE)

\* C1: in every reachable state the control field of every pendulum lies in
\* [-1, 1].
C1_ControlSaturated == \A e \in Entities : InUnit(pendulum[e].control)

\* C2: when compute_gain fails during an LQR run, the failure does not propagate
\* out of the run: the application keeps running with the control held.
C2_HoldOnSolverFailure ==
    (step.sys = "control_pendulum_lqr" /\ solve = "err") => ~crashed

\* C3: within a frame the controllers run before move_pendulum and move_pendulum
\* runs before history.
C3_TickOrder ==
    step.sys \in {"move_pendulum", "history"} =>
        /\ Pos("control_pendulum_pid") < Pos("move_pendulum")
        /\ Pos("control_pendulum_lqr") < Pos("move_pendulum")
        /\ Pos("move_pendulum") < Pos("history")

\* C4: at the end of every PID run the accumulator lies in
\* [min(-1 - (P + D), 0), max(1 - (P + D), 0)] for that run's P and D (the run
\* changes neither the angle, the velocity, the set point nor the gains, so P + D
\* is recomputed from the state after the run).
C4_AntiWindupBound ==
    step.sys = "control_pendulum_pid" =>
        \A e \in PidEntities :
            LET pd == pid_pd(pendulum[e], pid[e])
            IN /\ FLe(FMin(FSub(-ONE, pd), 0), pid[e].accumulator)
               /\ FLe(pid[e].accumulator, FMax(FSub(ONE, pd), 0))

\* C5: accumulator_enabled goes from true to false only in a Reset step of the
\* entity or in a step that changes its set point; a PID run leaves it true
\* exactly when it was true or |angle - set_point| < 0.05.
C5_MonotonicLatch ==
    [][\A e \in PidEntities :
          /\ (pid[e].accumulator_enabled /\ ~pid'[e].accumulator_enabled)
                => (IsReset(step', e) \/ pid'[e].set_point # pid[e].set_point)
          /\ step'.sys = "control_pendulum_pid"
                => (pid'[e].accumulator_enabled
                      <=> (pid[e].accumulator_enabled
                             \/ FLt(FAbs(FSub(pendulum[e].a, pid[e].set_point)), GATE)))
      ]_vars

\* C5 witness: the latch is set and has just survived a gain change.
C5_Witness ==
    /\ step.sys = "ui_example" /\ step.w = "integral_gain"
    /\ pid[step.e].accumulator_enabled

\* from a cleared latch the accumulator changes only in a PID run with
\* |angle - set_point| < 0.05
Rearmed(e) ==
    (~pid[e].accumulator_enabled /\ pid'[e].accumulator # pid[e].accumulator)
        => /\ step'.sys = "control_pendulum_pid"
           /\ FLt(FAbs(FSub(pendulum[e].a, pid[e].set_point)), GATE)

\* C6 as stated: a settings pass that changes the set point clears accumulator
\* and latch, so that the gate must be re-armed before the accumulator
\* changes again, and a settings pass that leaves the set point unchanged
\* leaves both unchanged.
C6_SetPointAsStated ==
    [][\A e \in PidEntities :
          /\ Rearmed(e)
          /\ step'.sys = "ui_example" =>
             IF pid'[e].set_point # pid[e].set_point
             THEN pid'[e].accumulator = 0 /\ ~pid'[e].accumulator_enabled
             ELSE /\ pid'[e].accumulator = pid[e].accumulator
                  /\ pid'[e].accumulator_enabled = pid[e].accumulator_enabled
      ]_vars

\* C6 amended: a settings pass that changes the set point clears accumulator and
\* latch, so that the gate must be re-armed before the accumulator changes
\* again; a settings pass that leaves the set point unchanged and in which Reset
\* is not clicked leaves both unchanged.
C6_SetPointClears ==
    [][\A e \in PidEntities :
          /\ Rearmed(e)
          /\ step'.sys = "ui_example" =>
             IF pid'[e].set_point # pid[e].set_point
             THEN pid'[e].accumulator = 0 /\ ~pid'[e].accumulator_enabled
             ELSE IsReset(step', e)
                  \/ /\ pid'[e].accumulator = pid[e].accumulator
                     /\ pid'[e].accumulator_enabled = pid[e].accumulator_enabled
      ]_vars

\* C6 witness: the set point has just been moved, accumulator and latch are
\* clear, and the history shows that the accumulator was not zero before.
C6_Witness ==
    /\ step.sys = "ui_example" /\ step.w = "set_point"
    /\ pid[step.e].set_point # SpawnPid.set_point
    /\ pid[step.e].accumulator = 0 /\ ~pid[step.e].accumulator_enabled
    /\ \E i \in DOMAIN pid[step.e].accumulator_history :
          pid[step.e].accumulator_history[i] # 0

\* C7: Reset applied to the result of Reset changes nothing, from every
\* reachable state, and the state a Reset step leaves is such a fixed point.
C7_ResetIdempotent ==
    \A e \in Entities :
        LET in == ResetClick(e)
            p1 == ui_pendulum(pendulum[e], in, e)
        IN /\ ui_pendulum(p1, in, e) = p1
           /\ IsReset(step, e) => p1 = pendulum[e]
           /\ e \in PidEntities =>
                 LET c1 == ui_pid(pid[e], in, e)
                 IN /\ ui_pid(c1, in, e) = c1
                    /\ IsReset(step, e) => c1 = pid[e]

\* C7 witness: Reset has just been clicked on an entity that had run.
C7_Witness ==
    /\ IsReset(step, "P")
    /\ pendulum["P"].control # 0
    /\ frame >= 1

IsPrefix(s, t) == Len(s) <= Len(t) /\ \A i \in 1..Len(s) : s[i] = t[i]

\* C8: a history step appends exactly one value to control_history of every
\* entity and one to error_history and accumulator_history of a PID entity; a
\* Reset step empties all histories of its entity; no other step changes a
\* history; so every history of an entity is as long as the number of history
\* steps since its last Reset.
C8_HistoryBookkeeping ==
    [][\A e \in Entities :
          LET h == pendulum[e].control_history
              h2 == pendulum'[e].control_history
          IN /\ Len(h2) = histSteps'[e]
             /\ IF step'.sys = "history" THEN Len(h2) = Len(h) + 1 /\ IsPrefix(h, h2)
                ELSE IF IsReset(step', e) THEN h2 = <<>>
                ELSE h2 = h
             /\ e \in PidEntities =>
                   LET eh == pid[e].error_history
                       eh2 == pid'[e].error_history
                       ah == pid[e].accumulator_history
                       ah2 == pid'[e].accumulator_history
                   IN /\ Len(eh2) = histSteps'[e] /\ Len(ah2) = histSteps'[e]
                      /\ IF step'.sys = "history"
                         THEN /\ Len(eh2) = Len(eh) + 1 /\ IsPrefix(eh, eh2)
                              /\ Len(ah2) = Len(ah) + 1 /\ IsPrefix(ah, ah2)
                         ELSE IF IsReset(step', e) THEN eh2 = <<>> /\ ah2 = <<>>
                         ELSE eh2 = eh /\ ah2 = ah
      ]_vars

\* C8 witness: history has just run for the second time, and the PID entity was
\* Reset after the first run: its histories hold one value, the other entity's two.
C8_Witness ==
    /\ step.sys = "history"
    /\ histSteps["P"] = 1 /\ histSteps["L"] = 2
    /\ Len(pid["P"].error_history) = 1
    /\ Len(pendulum["L"].control_history) = 2

\* C9: the value history appends to error_history is angle - set_point.
C9_ErrorSign ==
    step.sys = "history" =>
        \A e \in PidEntities :
            pid[e].error_history[Len(pid[e].error_history)]
                = FSub(pendulum[e].a, pid[e].set_point)

\* C10: A and B of every LQR component stay what get_system gave at
\* construction (SpawnLqr), whatever the pendulum's parameters and the costs
\* are now.
C10_StaleLinearization ==
    \A e \in LqrEntities :
        /\ lqr[e].a = SpawnLqr.a
        /\ lqr[e].b = SpawnLqr.b

\* C10 witness: the gain has just been computed after the costs were set and a
\* parameter was changed, and A is no longer the linearization of the pendulum.
C10_Witness ==
    /\ step.sys = "control_pendulum_lqr" /\ solve = "ok"
    /\ lqr["L"].q # SpawnLqr.q
    /\ pendulum["L"].length # DefaultPendulum.length
    /\ get_system(pendulum["L"]).a # lqr["L"].a

====
